---- MODULE Spec2Model ----
(***************************************************************************)
(* bevy_graph: generational-arena graphs (simple / multi, list / map       *)
(* adjacency, directed / undirected).  The state is one graph value: its   *)
(* node arena, edge arena and per-node adjacency records.  Every public    *)
(* operation of a graph type is one action.                                *)
(***************************************************************************)
EXTENDS Integers, Sequences, FiniteSets, TLC

\* ---------------------------------------------------------------- bounds
MaxNodeSlots == 3
MaxEdgeSlots == 2
MaxReuse == 0

\* Payloads of type N and E: opaque to every operation.
NodeValues == {0}
EdgeValues == {0, 1}

\* A key of a slot map: <<slot, version>>.  Two keys are equal iff both
\* parts are (keys.rs: new_key_type!).
NodeIdx == (1..MaxNodeSlots) \X (1..(1 + MaxReuse))
EdgeIdx == (1..MaxEdgeSlots) \X (1..(1 + MaxReuse))
NoIdx == <<0, 0>>

VARIABLES
    kind,          \* which graph type: "SimpleMap", "SimpleList", "MultiList", "MultiMap"
    directed,      \* the DIRECTED const parameter of the type
    nodes,         \* HopSlotMap<NodeIdx, N>: live node key -> payload
    edges,         \* HopSlotMap<EdgeIdx, Edge<E>>: live edge key -> edge record
    adjacencies,   \* SecondaryMap<NodeIdx, ...>: node key -> adjacency record
    node_slots,    \* per node slot, how many keys the slot has issued
    edge_slots,    \* per edge slot, how many keys the slot has issued
    reuse,         \* how many more times the run lets an arena reuse a vacant slot
    last,          \* the last call and what it returned
    bfs            \* the BreadthFirstSearch over the graph (queue, visited, what next returned)

vars ==
    <<kind, directed, nodes, edges, adjacencies, node_slots, edge_slots, reuse, last, bfs>>

\* ------------------------------------------------------------ error kinds
NodeNotFound == "NodeNotFound"     \* NodeIdxDoesntExist in the older files
EdgeNotFound == "EdgeNotFound"     \* EdgeIdxDoesntExist
Loop == "Loop"                     \* EdgeBetweenSameNode
DuplicateEdge == "DuplicateEdge"   \* EdgeBetweenAlreadyExists

\* A call that did not return: an unwrap / todo!() panic, or undefined
\* behaviour of an unchecked accessor on a vacant slot.
Halted == last.res \in {"panic", "ub"}

\* What a call can do once one of its `_unchecked` reads goes through a vacant
\* slot: a build with debug assertions stops on the arena's debug_assert, any
\* other build has undefined behaviour.
Outcomes(out) == IF out = "ub" THEN {"panic", "ub"} ELSE {out}

\* op: the operation; src, dst, edge: the keys it was given; res: "Ok", the error
\* kind, or how the call ended; ret: the key an insertion returned or the node
\* an error names; val: the payload an insertion or a write was given, or the
\* payload a removal returned.
Call(op, src, dst, edge, res, ret, val) ==
    [op |-> op, src |-> src, dst |-> dst, edge |-> edge, res |-> res, ret |-> ret, val |-> val]

\* ------------------------------------------------------------- slot maps
Without(f, k) == [x \in DOMAIN f \ {k} |-> f[x]]

EmptyMap == [x \in {} |-> NoIdx]

Min(S) == CHOOSE x \in S : \A y \in S : x <= y

\* HopSlotMap::insert takes a vacant slot of the free list when there is one
\* (which one is the free list's business) and grows the arena otherwise.
VacantSlots(slots, live) == {s \in DOMAIN slots : slots[s] > 0 /\ ~\E k \in live : k[1] = s}
FreshSlots(slots) == {s \in DOMAIN slots : slots[s] = 0}
InsertSlots(slots, live) ==
    IF VacantSlots(slots, live) # {} THEN VacantSlots(slots, live)
    ELSE IF FreshSlots(slots) # {} THEN {Min(FreshSlots(slots))}
    ELSE {}

\* (mutant) a freed slot is handed out again under the version it had.
InsertKeys_SameVersion(slots, live) ==
    {<<s, IF slots[s] = 0 THEN 1 ELSE slots[s]>> :
        s \in {t \in InsertSlots(slots, live) : slots[t] = 0 \/ reuse > 0}}

\* The keys insert can return: the slot's version moves on at every reuse.
\* A run reuses slots only while its budget `reuse` lasts.
InsertKeys(slots, live) ==
    {<<s, slots[s] + 1>> : s \in {t \in InsertSlots(slots, live) : slots[t] = 0 \/ reuse > 0}}

Issue(slots, idx) == [slots EXCEPT ![idx[1]] = idx[2]]

Spend(slots, idx) == IF slots[idx[1]] > 0 THEN reuse - 1 ELSE reuse

\* SecondaryMap::insert: the slot of idx now holds the value for idx.
SecondaryInsert(map, idx, value) ==
    (idx :> value) @@ [k \in {x \in DOMAIN map : x[1] # idx[1]} |-> map[k]]

\* No traversal has been created.  `start` is the node the traversal was
\* created with, `out` the nodes whose payload next has returned, in order,
\* `ret` what the last call of next returned.
NoBfs == [start |-> NoIdx, queue |-> <<>>, visited |-> {}, out |-> <<>>, ret |-> "none"]

\* ------------------------------------------------------------------ Init
Kinds == {"SimpleMap", "SimpleList", "MultiList", "MultiMap"}

Init ==
    /\ kind \in Kinds
    /\ directed \in BOOLEAN
    /\ nodes = EmptyMap
    /\ edges = EmptyMap
    /\ adjacencies = EmptyMap
    /\ node_slots = [s \in 1..MaxNodeSlots |-> 0]
    /\ edge_slots = [s \in 1..MaxEdgeSlots |-> 0]
    /\ reuse = MaxReuse
    /\ last = Call("new", NoIdx, NoIdx, NoIdx, "Ok", NoIdx, 0)
    /\ bfs = NoBfs

\* -------------------------------------------------------------- add_node
\* new_node / add_node of all four types: insert into the node arena and
\* give the new key an empty adjacency record.
NewNode(value, storage) ==
    /\ ~Halted
    /\ \E idx \in InsertKeys(node_slots, DOMAIN nodes) :
        /\ nodes' = (idx :> value) @@ nodes
        /\ node_slots' = Issue(node_slots, idx)
        /\ reuse' = Spend(node_slots, idx)
        /\ adjacencies' = SecondaryInsert(adjacencies, idx, storage)
        /\ last' = Call("add_node", NoIdx, NoIdx, NoIdx, "Ok", idx, 0)
    /\ UNCHANGED <<bfs, kind, directed, edges, edge_slots>>

SimpleMap_new_node(value) == kind = "SimpleMap" /\ NewNode(value, EmptyMap)

SimpleList_new_node(value) == kind = "SimpleList" /\ NewNode(value, <<>>)

MultiList_new_node(value) == kind = "MultiList" /\ NewNode(value, <<>>)

\* AdjacencyStorage::Directed(incoming, outgoing) / Undirected(storage); for
\* Undirected, incoming and outgoing are the one storage.
Incoming(storage) == IF directed THEN storage.incoming ELSE storage.storage
Outgoing(storage) == IF directed THEN storage.outgoing ELSE storage.storage
WithIncoming(storage, m) ==
    IF directed THEN [storage EXCEPT !.incoming = m] ELSE [storage EXCEPT !.storage = m]
WithOutgoing(storage, m) ==
    IF directed THEN [storage EXCEPT !.outgoing = m] ELSE [storage EXCEPT !.storage = m]
EmptyStorage ==
    IF directed THEN [incoming |-> EmptyMap, outgoing |-> EmptyMap] ELSE [storage |-> EmptyMap]

MultiMap_add_node(value) == kind = "MultiMap" /\ NewNode(value, EmptyStorage)

\* ------------------------------------------------------------ SimpleMapGraph
\* adjacencies: node key -> HashMap<NodeIdx, EdgeIdx> (a function neighbour -> edge).
\* Operators on the pair (edge arena E, adjacency map A) return the pair they leave.

\* (mutant) no duplicate check against from's record.
SimpleMap_new_edge_check_NoDuplicateCheck(from, to) ==
    IF from = to THEN [res |-> Loop, node |-> from]
    ELSE IF from \in DOMAIN adjacencies THEN
        IF to \in DOMAIN nodes THEN [res |-> "Ok", node |-> NoIdx]
        ELSE [res |-> NodeNotFound, node |-> to]
    ELSE [res |-> NodeNotFound, node |-> from]

\* (mutant) the nodes are looked up before src and dst are compared.
SimpleMap_new_edge_check_NodesFirst(from, to) ==
    IF from \notin DOMAIN adjacencies THEN [res |-> NodeNotFound, node |-> from]
    ELSE IF to \notin DOMAIN adjacencies THEN [res |-> NodeNotFound, node |-> to]
    ELSE IF from = to THEN [res |-> Loop, node |-> from]
    ELSE IF to \in DOMAIN adjacencies[from] THEN [res |-> DuplicateEdge, node |-> from]
    ELSE [res |-> "Ok", node |-> NoIdx]

\* new_edge: the checks, in the order the code makes them.  "Ok" or the error
\* and the node it names.
SimpleMap_new_edge_check(from, to) ==
    IF directed THEN
        IF from = to THEN [res |-> Loop, node |-> from]
        ELSE IF from \in DOMAIN adjacencies THEN
            IF to \in DOMAIN adjacencies[from] THEN [res |-> DuplicateEdge, node |-> from]
            ELSE IF to \in DOMAIN nodes THEN [res |-> "Ok", node |-> NoIdx]
            ELSE [res |-> NodeNotFound, node |-> to]
        ELSE [res |-> NodeNotFound, node |-> from]
    ELSE IF from = to THEN [res |-> Loop, node |-> from]
    ELSE IF from \in DOMAIN adjacencies THEN
        IF to \in DOMAIN adjacencies[from] THEN [res |-> DuplicateEdge, node |-> from]
        ELSE IF to \in DOMAIN adjacencies THEN
            IF from \in DOMAIN adjacencies[to] THEN [res |-> DuplicateEdge, node |-> from]
            ELSE [res |-> "Ok", node |-> NoIdx]
        ELSE [res |-> NodeNotFound, node |-> to]
    ELSE [res |-> NodeNotFound, node |-> from]

\* (mutant) the undirected branch records the edge on from's side only.
SimpleMap_new_edge_unchecked_OneSided(E, A, idx, from, to, value) ==
    [edges |-> (idx :> [src |-> from, dst |-> to, data |-> value]) @@ E,
     adjacencies |-> [A EXCEPT ![from] = (to :> idx) @@ @]]

\* (mutant) the directed branch records the edge on the target's side as well.
SimpleMap_new_edge_unchecked_BothSides(E, A, idx, from, to, value) ==
    [edges |-> (idx :> [src |-> from, dst |-> to, data |-> value]) @@ E,
     adjacencies |-> [[A EXCEPT ![from] = (to :> idx) @@ @]
                         EXCEPT ![to] = (from :> idx) @@ @]]

SimpleMap_new_edge_unchecked(E, A, idx, from, to, value) ==
    IF directed THEN
        [edges |-> (idx :> [src |-> from, dst |-> to, data |-> value]) @@ E,
         adjacencies |-> [A EXCEPT ![from] = (to :> idx) @@ @]]
    ELSE
        [edges |-> (idx :> [src |-> from, dst |-> to, data |-> value]) @@ E,
         adjacencies |-> [[A EXCEPT ![from] = (to :> idx) @@ @]
                             EXCEPT ![to] = (from :> idx) @@ @]]

\* (mutant) the edge goes into the arena before the checks are made.
SimpleMap_new_edge_InsertsFirst(from, to, value) ==
    /\ kind = "SimpleMap"
    /\ ~Halted
    /\ \E idx \in InsertKeys(edge_slots, DOMAIN edges) :
        LET c == SimpleMap_new_edge_check(from, to)
            r == SimpleMap_new_edge_unchecked(edges, adjacencies, idx, from, to, value)
        IN  /\ edge_slots' = Issue(edge_slots, idx)
            /\ reuse' = Spend(edge_slots, idx)
            /\ IF c.res = "Ok" THEN
                    /\ edges' = r.edges
                    /\ adjacencies' = r.adjacencies
                    /\ last' = Call("try_add_edge", from, to, NoIdx, "Ok", idx, value)
               ELSE
                    /\ edges' = (idx :> [src |-> from, dst |-> to, data |-> value]) @@ edges
                    /\ last' = Call("try_add_edge", from, to, NoIdx, c.res, c.node, 0)
                    /\ UNCHANGED adjacencies
    /\ UNCHANGED <<bfs, kind, directed, nodes, node_slots>>

SimpleMap_new_edge(from, to, value) ==
    /\ kind = "SimpleMap"
    /\ ~Halted
    /\ LET c == SimpleMap_new_edge_check(from, to) IN
        IF c.res = "Ok" THEN
            \E idx \in InsertKeys(edge_slots, DOMAIN edges) :
                LET r == SimpleMap_new_edge_unchecked(edges, adjacencies, idx, from, to, value) IN
                /\ edges' = r.edges
                /\ adjacencies' = r.adjacencies
                /\ edge_slots' = Issue(edge_slots, idx)
                /\ reuse' = Spend(edge_slots, idx)
                /\ last' = Call("try_add_edge", from, to, NoIdx, "Ok", idx, value)
        ELSE
            /\ last' = Call("try_add_edge", from, to, NoIdx, c.res, c.node, 0)
            /\ UNCHANGED <<edges, adjacencies, edge_slots, reuse>>
    /\ UNCHANGED <<bfs, kind, directed, nodes, node_slots>>

\* (mutant) the undirected branch unlinks the edge on one side only.
SimpleMap_remove_edge_unchecked_OneSided(E, A, edge) ==
    IF edge \notin DOMAIN E THEN [edges |-> E, adjacencies |-> A, ub |-> TRUE]
    ELSE [edges |-> Without(E, edge),
          adjacencies |-> [A EXCEPT ![E[edge].src] = Without(@, E[edge].dst)],
          ub |-> FALSE]

\* remove_edge_unchecked: the caller has established that edge is live; on a
\* vacant slot get_unchecked is undefined behaviour (ub).
SimpleMap_remove_edge_unchecked(E, A, edge) ==
    IF edge \notin DOMAIN E THEN [edges |-> E, adjacencies |-> A, ub |-> TRUE]
    ELSE IF directed THEN
        LET from == E[edge].src
            to == E[edge].dst
        IN  [edges |-> Without(E, edge),
             adjacencies |-> [A EXCEPT ![from] = Without(@, to)],
             ub |-> FALSE]
    ELSE
        LET node == E[edge].src
            other == E[edge].dst
        IN  [edges |-> Without(E, edge),
             adjacencies |-> [[A EXCEPT ![node] = Without(@, other)]
                                 EXCEPT ![other] = Without(@, node)],
             ub |-> FALSE]

\* (mutant) remove_edge without the contains_key test.
SimpleMap_remove_edge_Unguarded(edge) ==
    /\ kind = "SimpleMap"
    /\ ~Halted
    /\ LET r == SimpleMap_remove_edge_unchecked(edges, adjacencies, edge) IN
        /\ edges' = r.edges
        /\ adjacencies' = r.adjacencies
        /\ last' = Call("remove_edge", NoIdx, NoIdx, edge, IF r.ub THEN "ub" ELSE "Ok", NoIdx, 0)
    /\ UNCHANGED <<bfs, kind, directed, nodes, node_slots, edge_slots, reuse>>

SimpleMap_remove_edge(edge) ==
    /\ kind = "SimpleMap"
    /\ ~Halted
    /\ IF edge \in DOMAIN edges THEN
            LET r == SimpleMap_remove_edge_unchecked(edges, adjacencies, edge) IN
            /\ edges' = r.edges
            /\ adjacencies' = r.adjacencies
            /\ last' = Call("remove_edge", NoIdx, NoIdx, edge, "Ok", NoIdx, edges[edge].data)
       ELSE
            /\ last' = Call("remove_edge", NoIdx, NoIdx, edge, EdgeNotFound, NoIdx, 0)
            /\ UNCHANGED <<edges, adjacencies>>
    /\ UNCHANGED <<bfs, kind, directed, nodes, node_slots, edge_slots, reuse>>

\* edges_of: the (neighbour, edge) entries of node's HashMap; the unwrap of
\* adjacencies.get(node) panics for a node that has no record.
SimpleMap_edges_of(A, node) ==
    IF node \in DOMAIN A
    THEN [panic |-> FALSE, list |-> {<<n, A[node][n]>> : n \in DOMAIN A[node]}]
    ELSE [panic |-> TRUE, list |-> {}]

\* The loop `for edge in edges { remove_edge_unchecked(edge) }` over a set of
\* edge keys collected before the loop; the order does not matter to the result.
RECURSIVE SimpleMap_remove_edges(_, _, _)
SimpleMap_remove_edges(E, A, todo) ==
    IF todo = {} THEN [edges |-> E, adjacencies |-> A, ub |-> FALSE]
    ELSE LET edge == CHOOSE e \in todo : TRUE
             r == SimpleMap_remove_edge_unchecked(E, A, edge)
         IN  IF r.ub THEN r ELSE SimpleMap_remove_edges(r.edges, r.adjacencies, todo \ {edge})

\* (mutant) the directed branch collects the edges that leave the node alone.
SimpleMap_incident_OutgoingOnly(node) ==
    IF directed THEN {e \in DOMAIN edges : edges[e].src = node}
    ELSE {p[2] : p \in SimpleMap_edges_of(adjacencies, node).list}

\* The edges remove_node removes before it frees the node: directed, every edge
\* of the arena with node as src or dst; undirected, the edges of edges_of(node).
SimpleMap_incident(node) ==
    IF directed THEN {e \in DOMAIN edges : edges[e].dst = node \/ edges[e].src = node}
    ELSE {p[2] : p \in SimpleMap_edges_of(adjacencies, node).list}

SimpleMap_remove_node(node) ==
    /\ kind = "SimpleMap"
    /\ ~Halted
    /\ IF ~directed /\ SimpleMap_edges_of(adjacencies, node).panic THEN
            /\ last' = Call("remove_node", node, NoIdx, NoIdx, "panic", NoIdx, 0)
            /\ UNCHANGED <<nodes, edges, adjacencies>>
       ELSE
            LET r == SimpleMap_remove_edges(edges, adjacencies, SimpleMap_incident(node)) IN
            IF r.ub THEN
                /\ \E o \in Outcomes("ub") :
                    last' = Call("remove_node", node, NoIdx, NoIdx, o, NoIdx, 0)
                /\ edges' = r.edges
                /\ adjacencies' = r.adjacencies
                /\ UNCHANGED nodes
            ELSE IF node \in DOMAIN nodes THEN
                /\ nodes' = Without(nodes, node)
                /\ edges' = r.edges
                /\ adjacencies' = Without(r.adjacencies, node)
                /\ last' = Call("remove_node", node, NoIdx, NoIdx, "Ok", NoIdx, nodes[node])
            ELSE
                /\ edges' = r.edges
                /\ adjacencies' = r.adjacencies
                /\ last' = Call("remove_node", node, NoIdx, NoIdx, NodeNotFound, NoIdx, 0)
                /\ UNCHANGED nodes
    /\ UNCHANGED <<bfs, kind, directed, node_slots, edge_slots, reuse>>

\* (mutant) edge_between reports an absent `to` as an error too.
SimpleMap_edge_between_ChecksTo(from, to) ==
    IF from \in DOMAIN adjacencies /\ to \in DOMAIN adjacencies THEN
        IF to \in DOMAIN adjacencies[from]
        THEN [res |-> "Ok", edge |-> adjacencies[from][to]]
        ELSE [res |-> "Ok", edge |-> NoIdx]
    ELSE [res |-> NodeNotFound, edge |-> NoIdx]

\* SimpleGraph::edge_between: Ok(Some(e)) / Ok(None) / Err(NodeNotFound(from)).
SimpleMap_edge_between(from, to) ==
    IF from \in DOMAIN adjacencies THEN
        IF to \in DOMAIN adjacencies[from]
        THEN [res |-> "Ok", edge |-> adjacencies[from][to]]
        ELSE [res |-> "Ok", edge |-> NoIdx]
    ELSE [res |-> NodeNotFound, edge |-> NoIdx]

\* ----------------------------------------------------------- SimpleListGraph
\* adjacencies: node key -> Vec<(NodeIdx, EdgeIdx)>; the edge arena holds the
\* payload alone (HopSlotMap<EdgeIdx, E>).  new_edge is the only edge operation
\* of this type and makes no check: the edge is inserted first, then each
\* adjacencies.get_mut(..).unwrap() panics on a node that has no record.
SimpleList_new_edge(node, other, value) ==
    /\ kind = "SimpleList"
    /\ ~Halted
    /\ \E idx \in InsertKeys(edge_slots, DOMAIN edges) :
        /\ edges' = (idx :> value) @@ edges
        /\ edge_slots' = Issue(edge_slots, idx)
        /\ reuse' = Spend(edge_slots, idx)
        /\ IF node \notin DOMAIN adjacencies THEN
                /\ last' = Call("new_edge", node, other, NoIdx, "panic", NoIdx, 0)
                /\ UNCHANGED adjacencies
           ELSE IF directed THEN
                /\ adjacencies' = [adjacencies EXCEPT ![node] = Append(@, <<other, idx>>)]
                /\ last' = Call("new_edge", node, other, NoIdx, "Ok", idx, value)
           ELSE IF other \notin DOMAIN adjacencies THEN
                /\ adjacencies' = [adjacencies EXCEPT ![node] = Append(@, <<other, idx>>)]
                /\ last' = Call("new_edge", node, other, NoIdx, "panic", NoIdx, 0)
           ELSE
                /\ adjacencies' = [[adjacencies EXCEPT ![node] = Append(@, <<other, idx>>)]
                                      EXCEPT ![other] = Append(@, <<node, idx>>)]
                /\ last' = Call("new_edge", node, other, NoIdx, "Ok", idx, value)
    /\ UNCHANGED <<bfs, kind, directed, nodes, node_slots>>

\* The first of a set of indices of a sequence, 0 when there is none
\* (Iterator::find / position).
FirstIndex(hits) == IF hits = {} THEN 0 ELSE Min(hits)

\* edge_id_between: the first pair of from's list whose neighbour is `to`.
SimpleList_edge_id_between(from, to) ==
    IF from \notin DOMAIN adjacencies THEN NoIdx
    ELSE LET l == adjacencies[from]
             i == FirstIndex({k \in 1..Len(l) : l[k][1] = to})
         IN  IF i = 0 THEN NoIdx ELSE adjacencies[from][i][2]

\* ------------------------------------------------------------ MultiListGraph
\* adjacencies: node key -> Vec<(NodeIdx, Vec<EdgeIdx>)>.

\* find_edge_list / find_edge_list_mut: position of the entry of `node`, 0 for None.
find_edge_list(list, node) ==
    FirstIndex({k \in 1..Len(list) : list[k][1] = node})

\* (mutant) the edge is looked for by position: the front of the Vec.
find_edge_Front(list, edge) == IF list = <<>> THEN 0 ELSE 1

\* find_edge: position of edge in a Vec<EdgeIdx>, 0 for None.
find_edge(list, edge) ==
    FirstIndex({k \in 1..Len(list) : list[k] = edge})

\* Vec::swap_remove(i): the last element takes the place of element i.
swap_remove(list, i) ==
    IF i = Len(list) THEN SubSeq(list, 1, Len(list) - 1)
    ELSE [SubSeq(list, 1, Len(list) - 1) EXCEPT ![i] = list[Len(list)]]

\* `if let Some(list) = find_edge_list_mut(adjs, other) { list.push(idx) }
\*  else { adjs.push((other, vec![idx])) }`
MultiList_push(adjs, other, idx) ==
    LET i == find_edge_list(adjs, other) IN
    IF i # 0 THEN [adjs EXCEPT ![i] = <<@[1], Append(@[2], idx)>>]
    ELSE Append(adjs, <<other, <<idx>>>>)

\* (mutant) only the first endpoint is looked up.
MultiList_new_edge_check_FirstOnly(node, other) ==
    IF node \in DOMAIN nodes THEN [res |-> "Ok", node |-> NoIdx]
    ELSE [res |-> NodeNotFound, node |-> node]

\* (mutant) a self-loop is refused as on a simple graph.
MultiList_new_edge_check_NoLoops(node, other) ==
    IF node = other THEN [res |-> Loop, node |-> node]
    ELSE IF node \in DOMAIN nodes THEN
        IF other \in DOMAIN nodes THEN [res |-> "Ok", node |-> NoIdx]
        ELSE [res |-> NodeNotFound, node |-> other]
    ELSE [res |-> NodeNotFound, node |-> node]

MultiList_new_edge_check(node, other) ==
    IF node \in DOMAIN nodes THEN
        IF other \in DOMAIN nodes THEN [res |-> "Ok", node |-> NoIdx]
        ELSE [res |-> NodeNotFound, node |-> other]
    ELSE [res |-> NodeNotFound, node |-> node]

MultiList_new_edge_unchecked(E, A, idx, node, other, value) ==
    IF directed THEN
        [edges |-> (idx :> [src |-> node, dst |-> other, data |-> value]) @@ E,
         adjacencies |-> [A EXCEPT ![node] = MultiList_push(@, other, idx)]]
    ELSE
        [edges |-> (idx :> [src |-> node, dst |-> other, data |-> value]) @@ E,
         adjacencies |-> [[A EXCEPT ![node] = MultiList_push(@, other, idx)]
                             EXCEPT ![other] = MultiList_push(@, node, idx)]]

MultiList_new_edge(node, other, value) ==
    /\ kind = "MultiList"
    /\ ~Halted
    /\ LET c == MultiList_new_edge_check(node, other) IN
        IF c.res = "Ok" THEN
            \E idx \in InsertKeys(edge_slots, DOMAIN edges) :
                LET r == MultiList_new_edge_unchecked(edges, adjacencies, idx, node, other, value) IN
                /\ edges' = r.edges
                /\ adjacencies' = r.adjacencies
                /\ edge_slots' = Issue(edge_slots, idx)
                /\ reuse' = Spend(edge_slots, idx)
                /\ last' = Call("try_add_edge", node, other, NoIdx, "Ok", idx, value)
        ELSE
            /\ last' = Call("try_add_edge", node, other, NoIdx, c.res, c.node, 0)
            /\ UNCHANGED <<edges, adjacencies, edge_slots, reuse>>
    /\ UNCHANGED <<bfs, kind, directed, nodes, node_slots>>

\* `let list = find_edge_list_mut(adjs, to).unwrap();
\*  list.swap_remove(find_edge(list, edge).unwrap());`  Either unwrap panics on None.
MultiList_unlink(adjs, to, edge) ==
    LET i == find_edge_list(adjs, to) IN
    IF i = 0 THEN [panic |-> TRUE, adjs |-> adjs]
    ELSE LET j == find_edge(adjs[i][2], edge) IN
         IF j = 0 THEN [panic |-> TRUE, adjs |-> adjs]
         ELSE [panic |-> FALSE, adjs |-> [adjs EXCEPT ![i] = <<@[1], swap_remove(@[2], j)>>]]

\* (mutant) the edge is unlinked from the record of its source alone.
MultiList_remove_edge_unchecked_OneSided(E, A, edge) ==
    IF edge \notin DOMAIN E THEN [edges |-> E, adjacencies |-> A, out |-> "ub"]
    ELSE
        LET u1 == MultiList_unlink(A[E[edge].src], E[edge].dst, edge) IN
        IF u1.panic THEN [edges |-> E, adjacencies |-> A, out |-> "panic"]
        ELSE [edges |-> Without(E, edge),
              adjacencies |-> [A EXCEPT ![E[edge].src] = u1.adjs],
              out |-> "Ok"]

\* remove_edge_unchecked: get_unchecked on a vacant edge slot is undefined
\* behaviour (outcome "ub"); a failed unwrap is outcome "panic".
MultiList_remove_edge_unchecked(E, A, edge) ==
    IF edge \notin DOMAIN E THEN [edges |-> E, adjacencies |-> A, out |-> "ub"]
    ELSE
        LET from == E[edge].src
            to == E[edge].dst
            u1 == MultiList_unlink(A[from], to, edge)
            A1 == [A EXCEPT ![from] = u1.adjs]
        IN  IF u1.panic THEN [edges |-> E, adjacencies |-> A, out |-> "panic"]
            ELSE IF directed THEN
                [edges |-> Without(E, edge), adjacencies |-> A1, out |-> "Ok"]
            ELSE
                LET u2 == MultiList_unlink(A1[to], from, edge) IN
                IF u2.panic THEN [edges |-> E, adjacencies |-> A1, out |-> "panic"]
                ELSE [edges |-> Without(E, edge),
                      adjacencies |-> [A1 EXCEPT ![to] = u2.adjs],
                      out |-> "Ok"]

MultiList_remove_edge(edge) ==
    /\ kind = "MultiList"
    /\ ~Halted
    /\ IF edge \in DOMAIN edges THEN
            LET r == MultiList_remove_edge_unchecked(edges, adjacencies, edge) IN
            /\ edges' = r.edges
            /\ adjacencies' = r.adjacencies
            /\ last' = Call("remove_edge", NoIdx, NoIdx, edge, r.out, NoIdx, edges[edge].data)
       ELSE
            /\ last' = Call("remove_edge", NoIdx, NoIdx, edge, EdgeNotFound, NoIdx, 0)
            /\ UNCHANGED <<edges, adjacencies>>
    /\ UNCHANGED <<bfs, kind, directed, nodes, node_slots, edge_slots, reuse>>

\* edges_of: one (target, edge) pair per entry of every per-neighbour list, in
\* list order; empty for a node without a record.
RECURSIVE MultiList_flatten(_)
MultiList_flatten(list) ==
    IF list = <<>> THEN <<>>
    ELSE [i \in 1..Len(Head(list)[2]) |-> <<Head(list)[1], Head(list)[2][i]>>]
         \o MultiList_flatten(Tail(list))

MultiList_edges_of(A, node) ==
    IF node \in DOMAIN A THEN MultiList_flatten(A[node]) ELSE <<>>

\* `for edge in edges { remove_edge_unchecked(edge) }` over the keys collected
\* before the loop, in order; stops at the first call that does not return.
RECURSIVE MultiList_remove_edges(_, _, _)
MultiList_remove_edges(E, A, todo) ==
    IF todo = <<>> THEN [edges |-> E, adjacencies |-> A, out |-> "Ok"]
    ELSE LET r == MultiList_remove_edge_unchecked(E, A, Head(todo)) IN
         IF r.out # "Ok" THEN r
         ELSE MultiList_remove_edges(r.edges, r.adjacencies, Tail(todo))

\* A set of keys as a sequence in slot order (the arena's iteration order).
RECURSIVE InSlotOrder(_)
InSlotOrder(keys) ==
    IF keys = {} THEN <<>>
    ELSE LET k == CHOOSE x \in keys : \A y \in keys : x[1] <= y[1]
         IN  <<k>> \o InSlotOrder(keys \ {k})

\* The edge keys remove_node passes to remove_edge_unchecked, in order.
MultiList_incident(node) ==
    IF directed
    THEN InSlotOrder({e \in DOMAIN edges : edges[e].dst = node \/ edges[e].src = node})
    ELSE LET l == MultiList_edges_of(adjacencies, node) IN [i \in 1..Len(l) |-> l[i][2]]

MultiList_remove_node(node) ==
    /\ kind = "MultiList"
    /\ ~Halted
    /\ LET r == MultiList_remove_edges(edges, adjacencies, MultiList_incident(node)) IN
        /\ edges' = r.edges
        /\ IF r.out # "Ok" THEN
                /\ adjacencies' = r.adjacencies
                /\ \E o \in Outcomes(r.out) :
                    last' = Call("remove_node", node, NoIdx, NoIdx, o, NoIdx, 0)
                /\ UNCHANGED nodes
           ELSE IF node \in DOMAIN nodes THEN
                /\ nodes' = Without(nodes, node)
                /\ adjacencies' = Without(r.adjacencies, node)
                /\ last' = Call("remove_node", node, NoIdx, NoIdx, "Ok", NoIdx, nodes[node])
           ELSE
                /\ adjacencies' = r.adjacencies
                /\ last' = Call("remove_node", node, NoIdx, NoIdx, NodeNotFound, NoIdx, 0)
                /\ UNCHANGED nodes
    /\ UNCHANGED <<bfs, kind, directed, node_slots, edge_slots, reuse>>

\* edges_between: Err(NodeNotFound(from)) for an absent from, else the list
\* stored for `to` (empty when there is none).
MultiList_edges_between(from, to) ==
    IF from \in DOMAIN nodes THEN
        LET i == find_edge_list(adjacencies[from], to) IN
        [res |-> "Ok", list |-> IF i = 0 THEN <<>> ELSE adjacencies[from][i][2]]
    ELSE [res |-> NodeNotFound, list |-> <<>>]

\* ------------------------------------------------------------- MultiMapGraph
\* adjacencies: node key -> AdjacencyStorage<HashMap<NodeIdx, Vec<EdgeIdx>>>.

\* `map.entry(key).or_default().push(idx)`
MultiMap_push(map, key, idx) ==
    IF key \in DOMAIN map THEN [map EXCEPT ![key] = Append(@, idx)]
    ELSE (key :> <<idx>>) @@ map

\* VecSet::remove_by_value: takes the first element equal to value out of the Vec.
remove_by_value(list, value) ==
    LET j == find_edge(list, value) IN IF j = 0 THEN list ELSE swap_remove(list, j)

MultiMap_try_add_edge_check(src, dst) ==
    IF src \notin DOMAIN nodes THEN [res |-> NodeNotFound, node |-> src]
    ELSE IF dst \notin DOMAIN nodes THEN [res |-> NodeNotFound, node |-> dst]
    ELSE [res |-> "Ok", node |-> NoIdx]

\* (mutant) the edge is pushed onto the outgoing record of src alone.
MultiMap_link_OutgoingOnly(E, A, idx, src, dst, value) ==
    [edges |-> (idx :> [src |-> src, dst |-> dst, data |-> value]) @@ E,
     adjacencies |-> [A EXCEPT ![src] = WithOutgoing(@, MultiMap_push(Outgoing(@), dst, idx))]]

\* The unsafe block of try_add_edge.
MultiMap_link(E, A, idx, src, dst, value) ==
    LET A1 == [A EXCEPT ![src] = WithOutgoing(@, MultiMap_push(Outgoing(@), dst, idx))]
        A2 == [A1 EXCEPT ![dst] = WithIncoming(@, MultiMap_push(Incoming(@), src, idx))]
    IN  [edges |-> (idx :> [src |-> src, dst |-> dst, data |-> value]) @@ E,
         adjacencies |-> A2]

MultiMap_try_add_edge(src, dst, value) ==
    /\ kind = "MultiMap"
    /\ ~Halted
    /\ LET c == MultiMap_try_add_edge_check(src, dst) IN
        IF c.res = "Ok" THEN
            \E idx \in InsertKeys(edge_slots, DOMAIN edges) :
                LET r == MultiMap_link(edges, adjacencies, idx, src, dst, value) IN
                /\ edges' = r.edges
                /\ adjacencies' = r.adjacencies
                /\ edge_slots' = Issue(edge_slots, idx)
                /\ reuse' = Spend(edge_slots, idx)
                /\ last' = Call("try_add_edge", src, dst, NoIdx, "Ok", idx, value)
        ELSE
            /\ last' = Call("try_add_edge", src, dst, NoIdx, c.res, c.node, 0)
            /\ UNCHANGED <<edges, adjacencies, edge_slots, reuse>>
    /\ UNCHANGED <<bfs, kind, directed, nodes, node_slots>>

\* The unsafe block of remove_edge, after edges.remove(index) gave Edge(src, dst, _):
\* `.get_mut(&dst).unwrap()` panics when the map has no entry for the neighbour.
MultiMap_unlink(A, index, src, dst) ==
    IF dst \notin DOMAIN Outgoing(A[src]) THEN [panic |-> TRUE, adjacencies |-> A]
    ELSE
        LET A1 == [A EXCEPT ![src] =
                      WithOutgoing(@, [Outgoing(@) EXCEPT ![dst] = remove_by_value(@, index)])]
        IN  IF src \notin DOMAIN Incoming(A1[dst]) THEN [panic |-> TRUE, adjacencies |-> A1]
            ELSE [panic |-> FALSE,
                  adjacencies |-> [A1 EXCEPT ![dst] =
                      WithIncoming(@, [Incoming(@) EXCEPT ![src] = remove_by_value(@, index)])]]

\* (mutant) the edge is unlinked but stays in the arena.
MultiMap_remove_edge_KeepsEdge(index) ==
    /\ kind = "MultiMap"
    /\ ~Halted
    /\ IF index \in DOMAIN edges THEN
            LET r == MultiMap_unlink(adjacencies, index, edges[index].src, edges[index].dst) IN
            /\ edges' = edges
            /\ adjacencies' = r.adjacencies
            /\ last' = Call("remove_edge", NoIdx, NoIdx, index,
                            IF r.panic THEN "panic" ELSE "Ok", NoIdx, edges[index].data)
       ELSE
            /\ last' = Call("remove_edge", NoIdx, NoIdx, index, "None", NoIdx, 0)
            /\ UNCHANGED <<edges, adjacencies>>
    /\ UNCHANGED <<bfs, kind, directed, nodes, node_slots, edge_slots, reuse>>

MultiMap_remove_edge(index) ==
    /\ kind = "MultiMap"
    /\ ~Halted
    /\ IF index \in DOMAIN edges THEN
            LET r == MultiMap_unlink(adjacencies, index, edges[index].src, edges[index].dst) IN
            /\ edges' = Without(edges, index)
            /\ adjacencies' = r.adjacencies
            /\ last' = Call("remove_edge", NoIdx, NoIdx, index,
                            IF r.panic THEN "panic" ELSE "Ok", NoIdx, edges[index].data)
       ELSE
            /\ last' = Call("remove_edge", NoIdx, NoIdx, index, "None", NoIdx, 0)
            /\ UNCHANGED <<edges, adjacencies>>
    /\ UNCHANGED <<bfs, kind, directed, nodes, node_slots, edge_slots, reuse>>

\* remove_node is `todo!()`: every call panics.
MultiMap_remove_node(index) ==
    /\ kind = "MultiMap"
    /\ ~Halted
    /\ last' = Call("remove_node", index, NoIdx, NoIdx, "panic", NoIdx, 0)
    /\ UNCHANGED <<bfs, kind, directed, nodes, edges, adjacencies, node_slots, edge_slots, reuse>>

\* AdjacencyStorage::for_each_mut(HashMap::clear)
MultiMap_cleared(storage) == WithIncoming(WithOutgoing(storage, EmptyMap), EmptyMap)

MultiMap_clear_edges ==
    /\ kind = "MultiMap"
    /\ ~Halted
    /\ adjacencies' = [n \in DOMAIN adjacencies |-> MultiMap_cleared(adjacencies[n])]
    /\ edges' = EmptyMap
    /\ last' = Call("clear_edges", NoIdx, NoIdx, NoIdx, "Ok", NoIdx, 0)
    /\ UNCHANGED <<bfs, kind, directed, nodes, node_slots, edge_slots, reuse>>

\* (mutant) clear empties the edge arena and the records but keeps the nodes.
MultiMap_clear_KeepsNodes ==
    /\ kind = "MultiMap"
    /\ ~Halted
    /\ adjacencies' = EmptyMap
    /\ edges' = EmptyMap
    /\ nodes' = nodes
    /\ last' = Call("clear", NoIdx, NoIdx, NoIdx, "Ok", NoIdx, 0)
    /\ UNCHANGED <<bfs, kind, directed, node_slots, edge_slots, reuse>>

MultiMap_clear ==
    /\ kind = "MultiMap"
    /\ ~Halted
    /\ adjacencies' = EmptyMap
    /\ edges' = EmptyMap
    /\ nodes' = EmptyMap
    /\ last' = Call("clear", NoIdx, NoIdx, NoIdx, "Ok", NoIdx, 0)
    /\ UNCHANGED <<bfs, kind, directed, node_slots, edge_slots, reuse>>

\* node_count / edge_count (count): the live slots of the arenas.
node_count == Cardinality(DOMAIN nodes)

edge_count == Cardinality(DOMAIN edges)

\* degree is `todo!()`: every call panics.
MultiMap_degree(index) == [res |-> "panic", val |-> 0]

\* contains_edge_between: "panic" where adjacencies.get(src).unwrap() fails.
MultiMap_contains_edge_between(src, dst) ==
    IF src \notin DOMAIN adjacencies THEN "panic"
    ELSE IF dst \in DOMAIN Outgoing(adjacencies[src]) THEN "true" ELSE "false"

\* ------------------------------------------------------------ get_edge_mut
\* get_edge_mut / edge_by_id_mut of all four types, and the write of `value`
\* through the reference it returns; for a key that is not live it returns
\* None / EdgeIdxDoesntExist and there is nothing to write to.
get_edge_mut(edge, value) ==
    /\ ~Halted
    /\ IF edge \in DOMAIN edges THEN
            /\ edges' = IF kind = "SimpleList" THEN [edges EXCEPT ![edge] = value]
                        ELSE [edges EXCEPT ![edge].data = value]
            /\ last' = Call("get_edge_mut", NoIdx, NoIdx, edge, "Ok", NoIdx, value)
       ELSE
            /\ last' = Call("get_edge_mut", NoIdx, NoIdx, edge,
                            IF kind \in {"SimpleList", "MultiMap"} THEN "None" ELSE EdgeNotFound,
                            NoIdx, 0)
            /\ UNCHANGED edges
    /\ UNCHANGED <<bfs, kind, directed, nodes, adjacencies, node_slots, edge_slots, reuse>>

\* ------------------------------------------------------------------ Next
Next ==
    \/ \E v \in NodeValues : SimpleMap_new_node(v)
    \/ \E v \in NodeValues : SimpleList_new_node(v)
    \/ \E v \in NodeValues : MultiList_new_node(v)
    \/ \E v \in NodeValues : MultiMap_add_node(v)
    \/ \E a, b \in NodeIdx, v \in EdgeValues : SimpleMap_new_edge(a, b, v)
    \/ \E e \in EdgeIdx : SimpleMap_remove_edge(e)
    \/ \E n \in NodeIdx : SimpleMap_remove_node(n)
    \/ \E a, b \in NodeIdx, v \in EdgeValues : SimpleList_new_edge(a, b, v)
    \/ \E a, b \in NodeIdx, v \in EdgeValues : MultiList_new_edge(a, b, v)
    \/ \E e \in EdgeIdx : MultiList_remove_edge(e)
    \/ \E n \in NodeIdx : MultiList_remove_node(n)
    \/ \E a, b \in NodeIdx, v \in EdgeValues : MultiMap_try_add_edge(a, b, v)
    \/ \E e \in EdgeIdx : MultiMap_remove_edge(e)
    \/ \E n \in NodeIdx : MultiMap_remove_node(n)
    \/ MultiMap_clear_edges
    \/ MultiMap_clear
    \/ \E e \in EdgeIdx, v \in EdgeValues : get_edge_mut(e, v)

Spec == Init /\ [][Next]_vars

\* ------------------------------------------------- slot reuse
\* The same graph with one freed slot handed out again, for the type whose
\* remove_node and remove_edge free slots of both arenas.
ReuseBudget == 1

ReuseKinds == {"SimpleMap"}

NodeKeys == (1..MaxNodeSlots) \X (1..(1 + ReuseBudget))

EdgeKeys == (1..MaxEdgeSlots) \X (1..(1 + ReuseBudget))

InitReuse ==
    /\ kind \in ReuseKinds
    /\ directed \in BOOLEAN
    /\ nodes = EmptyMap
    /\ edges = EmptyMap
    /\ adjacencies = EmptyMap
    /\ node_slots = [s \in 1..MaxNodeSlots |-> 0]
    /\ edge_slots = [s \in 1..MaxEdgeSlots |-> 0]
    /\ reuse = ReuseBudget
    /\ last = Call("new", NoIdx, NoIdx, NoIdx, "Ok", NoIdx, 0)
    /\ bfs = NoBfs

NextReuse ==
    \/ \E v \in NodeValues : SimpleMap_new_node(v)
    \/ \E a, b \in NodeKeys, v \in EdgeValues : SimpleMap_new_edge(a, b, v)
    \/ \E e \in EdgeKeys : SimpleMap_remove_edge(e)
    \/ \E n \in NodeKeys : SimpleMap_remove_node(n)

SpecReuse == InitReuse /\ [][NextReuse]_vars

\* ------------------------------------------------- clear, then insert again
\* The MultiMapGraph with one slot handed out again: HopSlotMap::clear leaves
\* every slot vacant, the next insertion takes one of them.
InitClear ==
    /\ kind = "MultiMap"
    /\ directed \in BOOLEAN
    /\ nodes = EmptyMap
    /\ edges = EmptyMap
    /\ adjacencies = EmptyMap
    /\ node_slots = [s \in 1..MaxNodeSlots |-> 0]
    /\ edge_slots = [s \in 1..MaxEdgeSlots |-> 0]
    /\ reuse = ReuseBudget
    /\ last = Call("new", NoIdx, NoIdx, NoIdx, "Ok", NoIdx, 0)
    /\ bfs = NoBfs

NextClear ==
    \/ \E v \in NodeValues : MultiMap_add_node(v)
    \/ \E a, b \in NodeKeys, v \in EdgeValues : MultiMap_try_add_edge(a, b, v)
    \/ MultiMap_clear

SpecClear == InitClear /\ [][NextClear]_vars

\* ------------------------------------------------- parallel edges
\* The multigraph types with room for three edges between two nodes.
ParNodeSlots == 2

ParEdgeSlots == 3

ParNodeIdx == (1..ParNodeSlots) \X {1}

ParEdgeIdx == (1..ParEdgeSlots) \X {1}

InitParallel ==
    /\ kind \in {"MultiList", "MultiMap"}
    /\ directed \in BOOLEAN
    /\ nodes = EmptyMap
    /\ edges = EmptyMap
    /\ adjacencies = EmptyMap
    /\ node_slots = [s \in 1..ParNodeSlots |-> 0]
    /\ edge_slots = [s \in 1..ParEdgeSlots |-> 0]
    /\ reuse = 0
    /\ last = Call("new", NoIdx, NoIdx, NoIdx, "Ok", NoIdx, 0)
    /\ bfs = NoBfs

NextParallel ==
    \/ \E v \in NodeValues : MultiList_new_node(v)
    \/ \E v \in NodeValues : MultiMap_add_node(v)
    \/ \E a, b \in ParNodeIdx, v \in EdgeValues : MultiList_new_edge(a, b, v)
    \/ \E a, b \in ParNodeIdx, v \in EdgeValues : MultiMap_try_add_edge(a, b, v)
    \/ \E e \in ParEdgeIdx : MultiList_remove_edge(e)
    \/ \E e \in ParEdgeIdx : MultiMap_remove_edge(e)

SpecParallel == InitParallel /\ [][NextParallel]_vars

\* has_node / get_node / get_edge: the arena's contains_key / get.
has_node(node) == node \in DOMAIN nodes

get_node(idx) ==
    IF idx \in DOMAIN nodes THEN [res |-> "Ok", val |-> nodes[idx]]
    ELSE [res |-> NodeNotFound, val |-> 0]

get_edge(edge) ==
    IF edge \in DOMAIN edges THEN [res |-> "Ok", val |-> edges[edge].data]
    ELSE [res |-> EdgeNotFound, val |-> 0]

\* The arena has handed idx out at some time.
Issued(slots, idx) == idx[2] <= slots[idx[1]]

\* ------------------------------------------------- BreadthFirstSearch
\* A traversal of a SimpleMapGraph that is not mutated while it runs.  The
\* graphs are those add_node / add_edge build on BfsNodes nodes with payloads
\* 0, 1, ... in insertion order, edges inserted in the order of their pairs.
BfsNodes == 4

BfsKeys == {<<i, 1>> : i \in 1..BfsNodes}

\* The (from, to) pairs an edge can join: every ordered pair of distinct
\* nodes, undirected one orientation of each.
BfsPairs(d) ==
    {p \in BfsKeys \X BfsKeys : IF d THEN p[1] # p[2] ELSE p[1][1] < p[2][1]}

\* The place of pair p among the pairs S in insertion order.
PairRank(p, S) ==
    Cardinality({q \in S : q[1][1] < p[1][1] \/ (q[1][1] = p[1][1] /\ q[2][1] <= p[2][1])})

\* The arenas and records after the edges S were added to the fresh nodes.
BfsEdges(S) ==
    [e \in {<<PairRank(p, S), 1>> : p \in S} |->
        LET p == CHOOSE q \in S : PairRank(q, S) = e[1]
        IN  [src |-> p[1], dst |-> p[2], data |-> 0]]

BfsAdjacencies(S, d) ==
    [n \in BfsKeys |->
        [m \in {q[2] : q \in {r \in S : r[1] = n}}
                \cup (IF d THEN {} ELSE {q[1] : q \in {r \in S : r[2] = n}}) |->
            IF <<n, m>> \in S THEN <<PairRank(<<n, m>>, S), 1>>
            ELSE <<PairRank(<<m, n>>, S), 1>>]]

\* BreadthFirstSearch::new(start) on such a graph.
InitBfs ==
    /\ kind = "SimpleMap"
    /\ directed \in BOOLEAN
    /\ nodes = [n \in BfsKeys |-> n[1] - 1]
    /\ \E S \in SUBSET BfsPairs(directed) :
        /\ edges = BfsEdges(S)
        /\ adjacencies = BfsAdjacencies(S, directed)
        /\ edge_slots = [s \in 1..Cardinality(S) |-> 1]
    /\ node_slots = [s \in 1..BfsNodes |-> 1]
    /\ reuse = 0
    /\ last = Call("new", NoIdx, NoIdx, NoIdx, "Ok", NoIdx, 0)
    /\ \E start \in BfsKeys :
        bfs = [start |-> start, queue |-> <<start>>, visited |-> {start},
               out |-> <<>>, ret |-> "new"]

\* The orders in which iterating a HashMap can give the entries S.
Orderings(S) ==
    {o \in [1..Cardinality(S) -> S] : \A i, j \in 1..Cardinality(S) : o[i] = o[j] => i = j}

\* `for (idx, _) in edges { if !visited.contains(&idx) { visited.insert(idx);
\*  queue.push_back(idx); } }`
\* (mutant) the neighbours are tested against the visited set as it was before
\* the expansion and marked after it.
BfsVisit_MarkAfterwards(list, visited, queue) ==
    LET Unseen(p) == p[1] \notin visited
        new == SelectSeq(list, Unseen)
    IN  [visited |-> visited \cup {new[i][1] : i \in 1..Len(new)},
         queue |-> queue \o [i \in 1..Len(new) |-> new[i][1]]]

\* (mutant) every neighbour is enqueued, visited or not.
RECURSIVE BfsVisit_NoVisitedCheck(_, _, _)
BfsVisit_NoVisitedCheck(list, visited, queue) ==
    IF list = <<>> THEN [visited |-> visited, queue |-> queue]
    ELSE BfsVisit_NoVisitedCheck(Tail(list), visited \cup {Head(list)[1]},
                                 Append(queue, Head(list)[1]))

\* (mutant) an unvisited neighbour goes to the front of the queue.
RECURSIVE BfsVisit_PushFront(_, _, _)
BfsVisit_PushFront(list, visited, queue) ==
    IF list = <<>> THEN [visited |-> visited, queue |-> queue]
    ELSE LET idx == Head(list)[1] IN
         IF idx \notin visited
         THEN BfsVisit_PushFront(Tail(list), visited \cup {idx}, <<idx>> \o queue)
         ELSE BfsVisit_PushFront(Tail(list), visited, queue)

RECURSIVE BfsVisit(_, _, _)
BfsVisit(list, visited, queue) ==
    IF list = <<>> THEN [visited |-> visited, queue |-> queue]
    ELSE LET idx == Head(list)[1] IN
         IF idx \notin visited
         THEN BfsVisit(Tail(list), visited \cup {idx}, Append(queue, idx))
         ELSE BfsVisit(Tail(list), visited, queue)

\* graph.edges_of(node) as next sees it: whether the call panics and the
\* lists it can return.  SimpleMapGraph collects a HashMap in its iteration
\* order; MultiListGraph flattens its Vecs in their order.
Graph_edges_of(node) ==
    IF kind = "MultiList"
    THEN [panic |-> FALSE, lists |-> {MultiList_edges_of(adjacencies, node)}]
    ELSE [panic |-> SimpleMap_edges_of(adjacencies, node).panic,
          lists |-> Orderings(SimpleMap_edges_of(adjacencies, node).list)]

\* next: pop the front node, enqueue its unvisited neighbours in the order
\* edges_of lists them, return the node's payload; None on an empty queue.
\* edges_of and get_node(..).unwrap() panic on a node that is not there.
BreadthFirstSearch_next ==
    /\ bfs.ret \notin {"none", "panic"}
    /\ IF bfs.queue = <<>> THEN bfs' = [bfs EXCEPT !.ret = "None"]
       ELSE LET node == Head(bfs.queue)
                es == Graph_edges_of(node)
            IN  IF es.panic \/ node \notin DOMAIN nodes
                THEN bfs' = [bfs EXCEPT !.queue = Tail(@), !.ret = "panic"]
                ELSE \E order \in es.lists :
                        LET r == BfsVisit(order, bfs.visited, Tail(bfs.queue)) IN
                        bfs' = [bfs EXCEPT !.queue = r.queue, !.visited = r.visited,
                                           !.out = Append(@, node), !.ret = "Some"]
    /\ UNCHANGED <<kind, directed, nodes, edges, adjacencies, node_slots, edge_slots,
                   reuse, last>>

NextBfs == BreadthFirstSearch_next

SpecBfs == InitBfs /\ [][NextBfs]_vars

\* `while let Some(node) = bfs.next(&graph)`: the caller keeps calling next.
FairSpecBfs == SpecBfs /\ WF_vars(NextBfs)

\* ------------------------------------------------- traversal of a multigraph
\* A MultiListGraph is built with new_node and new_edge, then a traversal is
\* created and run; the graph is not mutated while the traversal exists.

\* BreadthFirstSearch::new(start): start is marked visited and enqueued; the
\* key is not looked up in any graph.
BreadthFirstSearch_new(start) ==
    /\ bfs = NoBfs
    /\ ~Halted
    /\ bfs' = [start |-> start, queue |-> <<start>>, visited |-> {start},
               out |-> <<>>, ret |-> "new"]
    /\ UNCHANGED <<kind, directed, nodes, edges, adjacencies, node_slots, edge_slots,
                   reuse, last>>

InitBuilt == Init /\ kind = "MultiList"

NextBuilt ==
    \/ \E v \in NodeValues : bfs = NoBfs /\ MultiList_new_node(v)
    \/ \E a, b \in NodeIdx, v \in EdgeValues : bfs = NoBfs /\ MultiList_new_edge(a, b, v)
    \/ \E start \in NodeIdx : BreadthFirstSearch_new(start)
    \/ BreadthFirstSearch_next

SpecBuilt == InitBuilt /\ [][NextBuilt]_vars

\* ------------------------------------------------- traversal after removals
\* A graph of a type that has edges_of (SimpleMapGraph, MultiListGraph) is
\* built and taken apart with the node and edge operations, then a traversal
\* is created and run with next (next_mut pops and enqueues in the same way);
\* the graph is not mutated while the traversal exists.
InitTraverse == Init /\ kind \in {"SimpleMap", "MultiList"}

NextTraverse ==
    \/ \E v \in NodeValues : bfs = NoBfs /\ SimpleMap_new_node(v)
    \/ \E v \in NodeValues : bfs = NoBfs /\ MultiList_new_node(v)
    \/ \E a, b \in NodeIdx, v \in EdgeValues : bfs = NoBfs /\ SimpleMap_new_edge(a, b, v)
    \/ \E a, b \in NodeIdx, v \in EdgeValues : bfs = NoBfs /\ MultiList_new_edge(a, b, v)
    \/ \E e \in EdgeIdx : bfs = NoBfs /\ SimpleMap_remove_edge(e)
    \/ \E e \in EdgeIdx : bfs = NoBfs /\ MultiList_remove_edge(e)
    \/ \E n \in NodeIdx : bfs = NoBfs /\ SimpleMap_remove_node(n)
    \/ \E n \in NodeIdx : bfs = NoBfs /\ MultiList_remove_node(n)
    \/ \E start \in NodeIdx : BreadthFirstSearch_new(start)
    \/ BreadthFirstSearch_next

SpecTraverse == InitTraverse /\ [][NextTraverse]_vars

\* ===================================================================
\* Observations the properties are stated with.

Range(seq) == {seq[i] : i \in 1..Len(seq)}

HasEndpoints == kind # "SimpleList"

\* The (neighbour, edge) associations of n's adjacency record (for the directed
\* MultiMapGraph: of its outgoing record).
OutAssoc(n) ==
    CASE kind = "SimpleMap" -> SimpleMap_edges_of(adjacencies, n).list
      [] kind = "SimpleList" -> Range(adjacencies[n])
      [] kind = "MultiList" -> Range(MultiList_edges_of(adjacencies, n))
      [] kind = "MultiMap" ->
            LET m == Outgoing(adjacencies[n])
            IN  UNION {{<<k, m[k][i]>> : i \in 1..Len(m[k])} : k \in DOMAIN m}

\* The associations of the incoming record of the directed MultiMapGraph.
InAssoc(n) ==
    LET m == Incoming(adjacencies[n])
    IN  UNION {{<<k, m[k][i]>> : i \in 1..Len(m[k])} : k \in DOMAIN m}

Connects(e, a, b) == edges[e].src = a /\ edges[e].dst = b

\* Edge e joins n and m: from n to m, or in either orientation when undirected.
Joins(e, n, m) ==
    IF directed THEN Connects(e, n, m) ELSE Connects(e, n, m) \/ Connects(e, m, n)

\* ===================================================================
\* C1: after every call that returned, every (neighbour, edge) association of
\* every adjacency record names an edge that is live in the edge arena and
\* whose endpoints are that node and that neighbour.
C1_AdjacencyRefersToLiveEdges ==
    ~Halted =>
        \A n \in DOMAIN adjacencies :
            /\ \A p \in OutAssoc(n) :
                /\ p[2] \in DOMAIN edges
                /\ HasEndpoints => Joins(p[2], n, p[1])
            /\ (kind = "MultiMap" /\ directed) =>
                \A p \in InAssoc(n) : p[2] \in DOMAIN edges /\ Connects(p[2], p[1], n)

\* A cascading remove_node has returned and some record still holds an association.
C1_Witness ==
    /\ last.op = "remove_node" /\ last.res = "Ok"
    /\ \E n \in DOMAIN adjacencies : OutAssoc(n) # {}

\* C2: after every call that returned, every live edge e = (a, b) is recorded:
\* a's record holds (b, e) and, undirected, b's record holds (a, e); so in the
\* undirected SimpleMapGraph the two duplicate checks of new_edge agree.  (The
\* SimpleListGraph arena keeps no endpoints: there every live edge is in some
\* record, and undirected records mirror each other.)
C2_LiveEdgesAreRecorded ==
    ~Halted =>
        /\ HasEndpoints =>
            \A e \in DOMAIN edges :
                LET a == edges[e].src
                    b == edges[e].dst
                IN  /\ a \in DOMAIN adjacencies /\ <<b, e>> \in OutAssoc(a)
                    /\ ~directed => (b \in DOMAIN adjacencies /\ <<a, e>> \in OutAssoc(b))
        /\ ~HasEndpoints =>
            /\ \A e \in DOMAIN edges : \E n \in DOMAIN adjacencies : \E p \in OutAssoc(n) : p[2] = e
            /\ ~directed =>
                \A n \in DOMAIN adjacencies : \A p \in OutAssoc(n) :
                    p[1] \in DOMAIN adjacencies /\ <<n, p[2]>> \in OutAssoc(p[1])
        /\ (kind = "SimpleMap" /\ ~directed) =>
            \A a, b \in DOMAIN adjacencies :
                (b \in DOMAIN adjacencies[a]) <=> (a \in DOMAIN adjacencies[b])

\* An undirected graph holds two live edges after an edge insertion returned.
C2_Witness ==
    /\ ~directed
    /\ last.op \in {"try_add_edge", "new_edge"} /\ last.res = "Ok"
    /\ Cardinality(DOMAIN edges) = 2

\* C3: in every state a simple graph reaches, no live edge joins a node to
\* itself and no two live edges join the same ordered (directed) or unordered
\* (undirected) pair of nodes.
C3_SimpleGraphsStaySimple ==
    (~Halted /\ kind \in {"SimpleMap", "SimpleList"}) =>
        /\ \A n \in DOMAIN adjacencies : \A p \in OutAssoc(n) : p[1] # n
        /\ \A n \in DOMAIN adjacencies : \A p, q \in OutAssoc(n) : p[1] = q[1] => p[2] = q[2]
        /\ HasEndpoints =>
            /\ \A e \in DOMAIN edges : edges[e].src # edges[e].dst
            /\ \A e, f \in DOMAIN edges :
                (e # f) => ~(Joins(e, edges[f].src, edges[f].dst))

\* The graph types whose edge insertion is fallible (returns a Result).
Fallible == kind \in {"SimpleMap", "MultiList", "MultiMap"}

Incident(e, n) == edges[e].src = n \/ edges[e].dst = n

\* The graph types that have a remove_node.
HasRemoveNode == kind \in {"SimpleMap", "MultiList", "MultiMap"}

\* C7: remove_node(n) on a live node n returns and leaves no live edge with
\* endpoint n and no adjacency association naming n; every edge not incident
\* to n stays live with its endpoints and payload; the number of live edges
\* drops by the number of edges that were incident to n.
C7_RemoveNodeCascades ==
    [][(HasRemoveNode /\ last'.op = "remove_node" /\ last'.src \in DOMAIN nodes) =>
        LET n == last'.src IN
        /\ last'.res = "Ok"
        /\ n \notin DOMAIN nodes'
        /\ \A e \in DOMAIN edges' : edges'[e].src # n /\ edges'[e].dst # n
        /\ n \notin DOMAIN adjacencies'
        /\ \A m \in DOMAIN adjacencies' : \A p \in OutAssoc(m)' : p[1] # n
        /\ \A e \in DOMAIN edges :
            ~Incident(e, n) => (e \in DOMAIN edges' /\ edges'[e] = edges[e])
        /\ Cardinality(DOMAIN edges') =
            Cardinality(DOMAIN edges) - Cardinality({e \in DOMAIN edges : Incident(e, n)})]_vars

\* C8: remove_node(n) for an n that is not live returns None / NodeNotFound
\* on every graph type, without a panic, and leaves the graph as it was.
C8_RemoveAbsentNodeIsNoOp ==
    [][(HasRemoveNode /\ last'.op = "remove_node" /\ last'.src \notin DOMAIN nodes) =>
        /\ last'.res \in {"None", NodeNotFound}
        /\ UNCHANGED <<nodes, edges, adjacencies>>]_vars

\* C9: for live src and dst, contains_edge_between(src, dst) is true exactly
\* when some live edge joins src to dst.
C9_ContainsIffLiveEdge ==
    (kind = "MultiMap" /\ ~Halted) =>
        \A src, dst \in DOMAIN nodes :
            (MultiMap_contains_edge_between(src, dst) = "true")
                <=> \E e \in DOMAIN edges : Joins(e, src, dst)

\* The between-query of each graph type gives the same answer for (a, b) and (b, a).
SymmetricBetween(a, b) ==
    CASE kind = "SimpleMap" -> SimpleMap_edge_between(a, b) = SimpleMap_edge_between(b, a)
      [] kind = "SimpleList" ->
            SimpleList_edge_id_between(a, b) = SimpleList_edge_id_between(b, a)
      [] kind = "MultiList" -> MultiList_edges_between(a, b) = MultiList_edges_between(b, a)
      [] kind = "MultiMap" ->
            MultiMap_contains_edge_between(a, b) = MultiMap_contains_edge_between(b, a)

\* C10: on an undirected graph the between-queries answer alike for (a, b) and
\* (b, a) for all live a and b, and a remove_edge that returned leaves the
\* removed edge in no node's record.
C10_UndirectedSymmetry ==
    /\ [](~directed /\ ~Halted => \A a, b \in DOMAIN nodes : SymmetricBetween(a, b))
    /\ [][(~directed /\ last'.op = "remove_edge" /\ last'.res = "Ok") =>
            \A n \in DOMAIN adjacencies' : \A p \in OutAssoc(n)' : p[2] # last'.edge]_vars

\* An undirected graph has removed one of two live edges.
C10_Witness ==
    /\ ~directed
    /\ last.op = "remove_edge" /\ last.res = "Ok"
    /\ last.edge[2] <= edge_slots[last.edge[1]] /\ last.edge \notin DOMAIN edges
    /\ \E e \in DOMAIN edges : edges[e].src # edges[e].dst

\* C11: in a directed simple graph an edge is found in its own direction only.
\* SimpleMapGraph: for live a and b, edge_between(a, b) is the live edge from a
\* to b, and none when there is no such edge (whatever edges run from b to a).
\* SimpleListGraph: new_edge(a, b, _) with a # b makes edge_id_between(a, b)
\* yield an edge and leaves b's record as it was.
C11_DirectedEdgeOneWay ==
    /\ []((directed /\ kind = "SimpleMap" /\ ~Halted) =>
            \A a, b \in DOMAIN nodes :
                LET r == SimpleMap_edge_between(a, b) IN
                /\ r.res = "Ok"
                /\ r.edge # NoIdx => (r.edge \in DOMAIN edges /\ Connects(r.edge, a, b))
                /\ \A e \in DOMAIN edges : Connects(e, a, b) => r.edge = e)
    /\ [][\A a, b \in NodeIdx :
            (directed /\ kind = "SimpleList" /\ last'.op = "new_edge" /\ last'.res = "Ok"
                /\ last'.src = a /\ last'.dst = b /\ a # b /\ b \in DOMAIN adjacencies) =>
                /\ SimpleList_edge_id_between(a, b)' # NoIdx
                /\ adjacencies'[b] = adjacencies[b]]_vars

\* A directed simple graph has just added a -> b while no edge runs b -> a.
C11_Witness ==
    /\ directed /\ kind = "SimpleMap"
    /\ last.op = "try_add_edge" /\ last.res = "Ok"
    /\ SimpleMap_edge_between(last.src, last.dst).edge = last.ret
    /\ SimpleMap_edge_between(last.dst, last.src).edge = NoIdx
    /\ Cardinality(DOMAIN edges) = 2

\* C12: node_count and edge_count follow the calls: a call that returned
\* changes node_count by +1 (add_node), -1 (remove_node that found the node),
\* to 0 (clear), and edge_count by +1 (a successful insertion), -1 (remove_edge
\* that found the edge), minus the edges incident to the node (remove_node), to
\* 0 (clear_edges, clear); every other call, a failed one in particular, changes
\* neither.  With both counts 0 at construction this is the count of successes
\* minus removals.
C12_CountsFollowCalls ==
    /\ [](last.op = "new" => (node_count = 0 /\ edge_count = 0))
    /\ [][~Halted' =>
            LET ok == last'.res = "Ok"
                op == last'.op
            IN  /\ node_count' - node_count =
                    CASE op = "add_node" /\ ok -> 1
                      [] op = "remove_node" /\ ok -> 0 - 1
                      [] op = "clear" -> 0 - node_count
                      [] OTHER -> 0
                /\ edge_count' - edge_count =
                    CASE op \in {"try_add_edge", "new_edge"} /\ ok -> 1
                      [] op = "remove_edge" /\ ok -> 0 - 1
                      [] op = "remove_node" /\ ok ->
                            0 - Cardinality({e \in DOMAIN edges : Incident(e, last'.src)})
                      [] op \in {"clear", "clear_edges"} -> 0 - edge_count
                      [] OTHER -> 0]_vars

\* A remove_node has taken two incident edges with it.
C12_Witness ==
    /\ last.op = "remove_node" /\ last.res = "Ok"
    /\ edge_count = 0 /\ node_count = 2
    /\ \A s \in 1..MaxEdgeSlots : edge_slots[s] = 1
    /\ \A n \in DOMAIN adjacencies : OutAssoc(n) = {}

\* C13: a node key that was removed never again satisfies has_node or
\* get_node, an edge key that was removed never again satisfies get_edge, also
\* when a later insertion takes the freed slot; and the key an insertion
\* returns was never handed out by this graph before.
C13_RemovedKeysStayDead ==
    [][/\ \A n \in NodeKeys :
            (Issued(node_slots, n) /\ ~has_node(n)) =>
                (~has_node(n)' /\ get_node(n)'.res # "Ok")
       /\ \A e \in EdgeKeys :
            (Issued(edge_slots, e) /\ get_edge(e).res # "Ok") => get_edge(e)'.res # "Ok"
       /\ (last'.op = "add_node" /\ last'.res = "Ok") =>
            (~Issued(node_slots, last'.ret) /\ last'.ret \in DOMAIN nodes')
       /\ (last'.op = "try_add_edge" /\ last'.res = "Ok") =>
            (~Issued(edge_slots, last'.ret) /\ last'.ret \in DOMAIN edges')]_vars

\* An insertion has taken the slot of a removed node: the old key is not live.
C13_Witness ==
    /\ last.op = "add_node" /\ last.res = "Ok" /\ last.ret[2] = 2
    /\ has_node(last.ret) /\ ~has_node(<<last.ret[1], 1>>)
    /\ get_node(<<last.ret[1], 1>>).res = NodeNotFound

\* C14: remove_edge of a key that is not live returns the absent result (None
\* / EdgeNotFound) and changes nothing; remove_edge of a live key returns its
\* payload and leaves the key not live, so a second remove_edge of the same key
\* returns the absent result.
C14_RemoveAbsentEdgeIsNoOp ==
    [][\A e \in EdgeIdx :
        (last'.op = "remove_edge" /\ last'.edge = e) =>
            IF e \in DOMAIN edges
            THEN /\ last'.res = "Ok"
                 /\ last'.val = edges[e].data
                 /\ e \notin DOMAIN edges'
            ELSE /\ last'.res \in {"None", EdgeNotFound}
                 /\ UNCHANGED <<nodes, edges, adjacencies>>]_vars

\* remove_edge has been called a second time with a key it removed before.
C14_Witness ==
    /\ last.op = "remove_edge" /\ last.res \in {"None", EdgeNotFound}
    /\ Issued(edge_slots, last.edge)
    /\ edges # EmptyMap

\* The multigraph types.
IsMultigraph == kind \in {"MultiList", "MultiMap"}

\* C15: on a multigraph try_add_edge(src, dst, _) with src and dst live
\* succeeds, also for src = dst and when edges between the two exist already;
\* the key it returns was never handed out before and edge_count grows by 1.
C15_MultigraphAcceptsEveryEdge ==
    [][(IsMultigraph /\ last'.op = "try_add_edge"
            /\ last'.src \in DOMAIN nodes /\ last'.dst \in DOMAIN nodes) =>
        /\ last'.res = "Ok"
        /\ ~Issued(edge_slots, last'.ret)
        /\ last'.ret \in DOMAIN edges'
        /\ edge_count' = edge_count + 1]_vars

\* A multigraph has accepted a second self-loop on the same node.
C15_Witness ==
    /\ IsMultigraph
    /\ last.op = "try_add_edge" /\ last.res = "Ok" /\ last.src = last.dst
    /\ edge_count = 2
    /\ \A e \in DOMAIN edges : Connects(e, last.src, last.src)

\* The number of entries of all the Vecs of a HashMap<NodeIdx, Vec<EdgeIdx>>.
RECURSIVE SumLen(_)
SumLen(m) ==
    IF DOMAIN m = {} THEN 0
    ELSE LET k == CHOOSE x \in DOMAIN m : TRUE IN Len(m[k]) + SumLen(Without(m, k))

\* The number of (neighbour, edge) associations of n's adjacency record in the
\* MultiMapGraph; an undirected self-loop is stored twice.
AssocCount(n) ==
    IF directed
    THEN SumLen(Outgoing(adjacencies[n])) + SumLen(Incoming(adjacencies[n]))
    ELSE SumLen(Outgoing(adjacencies[n]))

\* C16: degree(n) of a live node n returns the number of (neighbour, edge)
\* associations of n's adjacency record, a self-loop counted twice.
C16_DegreeCountsAssociations ==
    (kind = "MultiMap" /\ ~Halted) =>
        \A n \in DOMAIN nodes :
            MultiMap_degree(n).res = "Ok" /\ MultiMap_degree(n).val = AssocCount(n)

\* The nodes one edge away from the nodes S, along the edges' direction.
Successors(S) == UNION {DOMAIN adjacencies[n] : n \in S \cap DOMAIN adjacencies}

\* The nodes reachable from the nodes S.
RECURSIVE Reachable(_)
Reachable(S) ==
    IF Successors(S) \subseteq S THEN S ELSE Reachable(S \cup Successors(S))

\* The number of edges on a shortest path to n from the nodes `frontier`, which
\* lie d edges from the start; BfsNodes when there is no path.
RECURSIVE Distance(_, _, _, _)
Distance(n, frontier, seen, d) ==
    IF n \in frontier THEN d
    ELSE IF frontier = {} THEN BfsNodes
    ELSE Distance(n, Successors(frontier) \ (seen \cup frontier), seen \cup frontier, d + 1)

DistanceFromStart(n) == Distance(n, {bfs.start}, {}, 0)

\* C17: on an unmutated graph and a live start node, next returns each node
\* reachable from the start exactly once and no other node, never panics,
\* returns None only when all of them were returned, and eventually returns
\* None.
C17_BfsVisitsReachableOnce ==
    /\ [](/\ bfs.ret # "panic"
          /\ \A i, j \in 1..Len(bfs.out) : bfs.out[i] = bfs.out[j] => i = j
          /\ Range(bfs.out) \subseteq Reachable({bfs.start})
          /\ bfs.ret = "None" => Range(bfs.out) = Reachable({bfs.start}))
    /\ <>(bfs.ret = "None")

\* A traversal has ended with some but not all nodes returned.
C17_Witness ==
    /\ bfs.ret = "None"
    /\ Len(bfs.out) = 3
    /\ edges # EmptyMap

\* C18: next returns the nodes in non-decreasing order of their distance from
\* the start node, counted in edges.
C18_BfsOrderedByDistance ==
    \A i, j \in 1..Len(bfs.out) :
        i < j => DistanceFromStart(bfs.out[i]) <= DistanceFromStart(bfs.out[j])

\* next has returned nodes at distances 0, 1, 1 and 2.
C18_Witness ==
    /\ Len(bfs.out) = 4
    /\ DistanceFromStart(bfs.out[2]) = 1
    /\ DistanceFromStart(bfs.out[3]) = 1
    /\ DistanceFromStart(bfs.out[4]) = 2

\* The graph of the test basic_imperative_bfs: payloads 0..3, edges 0->1, 0->2,
\* 1->2, 2->0, 2->3 added in this order, traversal started at node 0.
BasicImperativeBfs ==
    /\ kind = "SimpleMap" /\ directed
    /\ DOMAIN nodes = BfsKeys
    /\ {<<edges[e].src[1], edges[e].dst[1]>> : e \in DOMAIN edges}
            = {<<1, 2>>, <<1, 3>>, <<2, 3>>, <<3, 1>>, <<3, 4>>}
    /\ bfs.start = <<1, 1>>

\* The payloads next has returned, in order.
Payloads == [i \in 1..Len(bfs.out) |-> nodes[bfs.out[i]]]

\* C19: on the graph of basic_imperative_bfs the traversal from node 0 has
\* returned the payloads 0, 2, 1, 3 in this order when next returns None.
C19_BasicBfsOrder ==
    (BasicImperativeBfs /\ bfs.ret = "None") => Payloads = <<0, 2, 1, 3>>

\* C20: clear_edges leaves edge_count 0 and every node's adjacency record
\* empty, so that degree is 0 for every node and contains_edge_between false
\* for every pair; no edge key is live after it; the live nodes, their keys
\* and payloads are as before.
C20_ClearEdgesKeepsNodes ==
    [][last'.op = "clear_edges" =>
        /\ edge_count' = 0
        /\ \A e \in EdgeIdx : get_edge(e)'.res # "Ok"
        /\ nodes' = nodes
        /\ DOMAIN adjacencies' = DOMAIN nodes
        /\ \A n \in DOMAIN nodes :
            /\ AssocCount(n)' = 0
            /\ MultiMap_degree(n).res = "Ok" /\ MultiMap_degree(n).val = 0
            /\ \A m \in DOMAIN nodes : MultiMap_contains_edge_between(n, m)' = "false"]_vars

\* C21: clear leaves node_count and edge_count 0, and a clear right after a
\* clear changes nothing; no node key handed out before is live after it, and
\* none becomes live again: the key a later add_node returns is live and was
\* never handed out before.
C21_ClearThenFreshKeys ==
    [][/\ last'.op = "clear" =>
            /\ node_count' = 0 /\ edge_count' = 0
            /\ \A n \in NodeKeys : ~has_node(n)'
            /\ last.op = "clear" => UNCHANGED <<nodes, edges, adjacencies, node_slots, edge_slots>>
       /\ \A n \in NodeKeys :
            (Issued(node_slots, n) /\ ~has_node(n)) => ~has_node(n)'
       /\ last'.op = "add_node" =>
            /\ last'.res = "Ok"
            /\ ~Issued(node_slots, last'.ret)
            /\ last'.ret \in DOMAIN nodes']_vars

\* add_node after a clear has taken a slot that held a node before the clear.
C21_Witness ==
    /\ kind = "MultiMap"
    /\ last.op = "add_node" /\ last.res = "Ok" /\ last.ret[2] = 2
    /\ node_count = 1
    /\ \A s \in 1..MaxNodeSlots : node_slots[s] >= 1
    /\ \A s \in 1..MaxEdgeSlots : edge_slots[s] = 1
    /\ edge_count = 0

\* C22: contains_edge_between(src, dst) does not return a boolean when src or
\* dst is not live: it panics or reports NodeNotFound.
C22_ContainsNeedsBothNodes ==
    (kind = "MultiMap" /\ ~Halted) =>
        \A src, dst \in NodeIdx :
            (src \notin DOMAIN nodes \/ dst \notin DOMAIN nodes) =>
                MultiMap_contains_edge_between(src, dst) \in {"panic", NodeNotFound}

\* C23: on a simple graph edge_between(from, to) is an error, NodeNotFound,
\* exactly when `from` is not live; for a live `from` it is Ok(Some(e)) with e
\* the live edge that joins from to `to` when there is one and Ok(None)
\* otherwise, in particular for every `to` that is not live.
C23_EdgeBetweenErrsOnlyOnFrom ==
    (kind = "SimpleMap" /\ ~Halted) =>
        \A from, to \in NodeIdx :
            LET r == SimpleMap_edge_between(from, to) IN
            /\ r.res \in {"Ok", NodeNotFound}
            /\ (r.res = NodeNotFound) <=> (from \notin DOMAIN nodes)
            /\ r.res = NodeNotFound => r.edge = NoIdx
            /\ from \in DOMAIN nodes =>
                /\ r.edge # NoIdx => (r.edge \in DOMAIN edges /\ Joins(r.edge, from, to))
                /\ \A e \in DOMAIN edges : Joins(e, from, to) => r.edge = e
                /\ to \notin DOMAIN nodes => r.edge = NoIdx

\* A node was removed: edge_between from a live node to it is Ok(None), and
\* edge_between still finds the edge that is left.
C23_Witness ==
    /\ kind = "SimpleMap"
    /\ last.op = "remove_node" /\ last.res = "Ok"
    /\ \E from \in DOMAIN nodes :
        SimpleMap_edge_between(from, last.src) = [res |-> "Ok", edge |-> NoIdx]
    /\ \E e \in DOMAIN edges :
        SimpleMap_edge_between(edges[e].src, edges[e].dst) = [res |-> "Ok", edge |-> e]

\* C24: the key e that try_add_edge(a, b, v) returned gives, through get_edge,
\* a view with the endpoints (a, b) and the payload v; while e is live every
\* call leaves the view as it was, except a write through get_edge_mut(e),
\* which changes the payload alone; and e stays live through every call other
\* than remove_edge(e), remove_node of one of its endpoints, clear_edges and
\* clear.
C24_GetEdgeViewIsStable ==
    [][(HasEndpoints /\ ~Halted') =>
        \A e \in EdgeIdx :
            /\ (last'.op = "try_add_edge" /\ last'.res = "Ok" /\ last'.ret = e) =>
                /\ get_edge(e)'.res = "Ok"
                /\ get_edge(e)'.val = last'.val
                /\ {"src", "dst"} \subseteq DOMAIN get_edge(e)'
                /\ get_edge(e)'.src = last'.src /\ get_edge(e)'.dst = last'.dst
            /\ (e \in DOMAIN edges /\ e \in DOMAIN edges') =>
                IF last'.op = "get_edge_mut" /\ last'.edge = e
                THEN get_edge(e)' = [get_edge(e) EXCEPT !.val = last'.val]
                ELSE get_edge(e)' = get_edge(e)
            /\ (e \in DOMAIN edges /\ e \notin DOMAIN edges') =>
                \/ last'.op = "remove_edge" /\ last'.edge = e
                \/ last'.op = "remove_node" /\ Incident(e, last'.src)
                \/ last'.op \in {"clear", "clear_edges"}]_vars

\* C25: on an undirected SimpleMapGraph every list edges_of(n) can return for
\* a live node n holds exactly the live edges incident to n, each once, each
\* paired with its other endpoint (what neighbors(n) yields), and lists them
\* in the order in which the edges were added (edge slots are handed out in
\* ascending order).
C25_EdgesOfInInsertionOrder ==
    (kind = "SimpleMap" /\ ~directed /\ ~Halted) =>
        \A n \in DOMAIN nodes :
            \A o \in Orderings(SimpleMap_edges_of(adjacencies, n).list) :
                /\ ~SimpleMap_edges_of(adjacencies, n).panic
                /\ {o[i][2] : i \in DOMAIN o} = {e \in DOMAIN edges : Incident(e, n)}
                /\ \A i, j \in DOMAIN o : o[i][2] = o[j][2] => i = j
                /\ \A i \in DOMAIN o : o[i][1] # n /\ Joins(o[i][2], n, o[i][1])
                /\ \A i, j \in DOMAIN o : i < j => o[i][2][1] < o[j][2][1]

\* The nodes the traversal has enqueued so far, in the order of enqueueing:
\* those next has popped and returned, then those still in the queue.
Enqueued == bfs.out \o bfs.queue

\* The traversal exists and no call of next has panicked.
Traversing == bfs.ret \notin {"none", "panic"}

\* C26 as stated: every node in the queue is in the visited set, no node is
\* in the queue twice, no node is enqueued twice over the traversal (the
\* enqueued nodes are the visited ones, each once), and the queue is never
\* longer than the graph has nodes.
C26_QueueHoldsVisitedOnce ==
    Traversing =>
        /\ Range(bfs.queue) \subseteq bfs.visited
        /\ \A i, j \in 1..Len(Enqueued) : Enqueued[i] = Enqueued[j] => i = j
        /\ Range(Enqueued) = bfs.visited
        /\ Len(bfs.queue) <= node_count

\* C26 amended: as C26, the bound on the queue length for a traversal that was
\* created with a live start node.
C26_QueueHoldsVisitedOnceLiveStart ==
    Traversing =>
        /\ Range(bfs.queue) \subseteq bfs.visited
        /\ \A i, j \in 1..Len(Enqueued) : Enqueued[i] = Enqueued[j] => i = j
        /\ Range(Enqueued) = bfs.visited
        /\ has_node(bfs.start) => Len(bfs.queue) <= node_count

\* next has expanded a node that has two parallel edges to one neighbour: the
\* neighbour is in the queue once.
C26_Witness ==
    /\ bfs.ret = "Some" /\ Len(bfs.out) = 1
    /\ bfs.queue # <<>>
    /\ Head(bfs.queue) # bfs.start
    /\ Len(MultiList_edges_between(bfs.start, Head(bfs.queue)).list) = 2
    /\ Len(bfs.queue) = 1

\* C27: on an undirected MultiListGraph the edges remove_node(n) passes to
\* remove_edge_unchecked are the live edges incident to n, each once, and every
\* one of them is live when it is passed: no call in the loop reads a vacant
\* slot or fails an unwrap, also when n has a self-loop or parallel edges.
C27_RemoveNodePassesLiveEdges ==
    (kind = "MultiList" /\ ~directed /\ ~Halted) =>
        \A n \in NodeIdx :
            LET todo == MultiList_incident(n) IN
            /\ \A i, j \in 1..Len(todo) : todo[i] = todo[j] => i = j
            /\ Range(todo) = {e \in DOMAIN edges : Incident(e, n)}
            /\ MultiList_remove_edges(edges, adjacencies, todo).out = "Ok"

\* Where edge e stands in the record m of node n: (node, key, position).
PlacesIn(n, m, e) ==
    UNION {{<<n, k, i>> : i \in {j \in 1..Len(m[k]) : m[k][j] = e}} : k \in DOMAIN m}

\* Where edge e stands in the outgoing records, and in the incoming records.
OutPlaces(e) == UNION {PlacesIn(n, Outgoing(adjacencies[n]), e) : n \in DOMAIN adjacencies}

InPlaces(e) == UNION {PlacesIn(n, Incoming(adjacencies[n]), e) : n \in DOMAIN adjacencies}

\* C28: in the directed MultiMapGraph, after every call that returned, an edge
\* key is in the outgoing record of src under dst exactly when it is in the
\* incoming record of dst under src, and every live edge stands exactly once in
\* the outgoing records (at its src under its dst) and exactly once in the
\* incoming records (at its dst under its src).
C28_OutgoingMirrorsIncoming ==
    (kind = "MultiMap" /\ directed /\ ~Halted) =>
        /\ \A e \in EdgeIdx : \A src, dst \in NodeIdx :
            (\E p \in OutPlaces(e) : p[1] = src /\ p[2] = dst)
                <=> (\E p \in InPlaces(e) : p[1] = dst /\ p[2] = src)
        /\ \A e \in DOMAIN edges :
            /\ Cardinality(OutPlaces(e)) = 1
            /\ Cardinality(InPlaces(e)) = 1
            /\ \A p \in OutPlaces(e) : p[1] = edges[e].src /\ p[2] = edges[e].dst
            /\ \A p \in InPlaces(e) : p[1] = edges[e].dst /\ p[2] = edges[e].src

\* One of two parallel edges of a directed MultiMapGraph was removed; the
\* other one is recorded on both sides.
C28_Witness ==
    /\ kind = "MultiMap" /\ directed
    /\ last.op = "remove_edge" /\ last.res = "Ok"
    /\ edge_count = 1
    /\ \E e \in DOMAIN edges :
        /\ edges[e].src # edges[e].dst
        /\ Outgoing(adjacencies[edges[e].src])[edges[e].dst] = <<e>>
        /\ Incoming(adjacencies[edges[e].dst])[edges[e].src] = <<e>>

\* How many times edge f stands in n's record under the neighbour k (for the
\* directed MultiMapGraph: in n's outgoing record), and how many times in n's
\* incoming record under k.
Listed(n, k, f) ==
    IF kind = "MultiList" THEN
        LET i == find_edge_list(adjacencies[n], k)
            l == IF i = 0 THEN <<>> ELSE adjacencies[n][i][2]
        IN  Cardinality({j \in 1..Len(l) : l[j] = f})
    ELSE
        LET m == Outgoing(adjacencies[n])
            l == IF k \in DOMAIN m THEN m[k] ELSE <<>>
        IN  Cardinality({j \in 1..Len(l) : l[j] = f})

ListedIn(n, k, f) ==
    LET m == Incoming(adjacencies[n])
        l == IF k \in DOMAIN m THEN m[k] ELSE <<>>
    IN  Cardinality({j \in 1..Len(l) : l[j] = f})

\* C29: on a multigraph remove_edge(e) of a live edge e returns, takes e out
\* of the edge arena and out of every per-neighbour sequence, and leaves every
\* other edge live, with its endpoints and payload, and listed as often as
\* before under every neighbour of every node, whatever position e had.
C29_RemoveEdgeRemovesOnlyThatEdge ==
    [][\A e \in ParEdgeIdx :
        (IsMultigraph /\ last'.op = "remove_edge" /\ last'.edge = e /\ e \in DOMAIN edges) =>
            /\ last'.res = "Ok"
            /\ e \notin DOMAIN edges'
            /\ \A f \in DOMAIN edges \ {e} : f \in DOMAIN edges' /\ edges'[f] = edges[f]
            /\ DOMAIN adjacencies' = DOMAIN adjacencies
            /\ \A n \in DOMAIN adjacencies : \A k \in ParNodeIdx : \A f \in ParEdgeIdx :
                /\ Listed(n, k, f)' = IF f = e THEN 0 ELSE Listed(n, k, f)
                /\ (kind = "MultiMap" /\ directed) =>
                    ListedIn(n, k, f)' = IF f = e THEN 0 ELSE ListedIn(n, k, f)]_vars

\* The first of three parallel edges was removed: the two others are still
\* listed, the last one in the place of the first.
C29_Witness ==
    /\ kind = "MultiList"
    /\ last.op = "remove_edge" /\ last.res = "Ok" /\ last.edge = <<1, 1>>
    /\ edge_count = 2
    /\ \E a, b \in DOMAIN nodes :
        a # b /\ MultiList_edges_between(a, b).list = <<(<<3, 1>>), (<<2, 1>>)>>

\* C30: an edge insertion that returns an error (NodeNotFound, Loop or
\* DuplicateEdge) leaves the graph as it was: the arenas, the adjacency
\* records and the slots handed out are unchanged, and so is edge_count.
C30_FailedInsertionChangesNothing ==
    [][(last'.op \in {"try_add_edge", "new_edge"}
            /\ last'.res \in {NodeNotFound, Loop, DuplicateEdge}) =>
        /\ UNCHANGED <<nodes, edges, adjacencies, node_slots, edge_slots>>
        /\ edge_count' = edge_count]_vars

\* A simple graph with one edge and a free edge slot has refused a duplicate.
C30_Witness ==
    /\ kind = "SimpleMap"
    /\ last.op = "try_add_edge" /\ last.res = DuplicateEdge
    /\ edge_count = 1
    /\ \E s \in 1..MaxEdgeSlots : edge_slots[s] = 0

\* C31: after every graph call that returned, every live node has an
\* adjacency record and every (neighbour, edge) association edges_of yields
\* names a live node, also after remove_node of a node that had incoming
\* edges; so in a traversal created with a live start node on a graph that is
\* not mutated, every node in the queue (every node next will pop) is live and
\* has a record, edges_of does not panic for it, and no call of next panics.
C31_BfsPopsLiveNodes ==
    /\ ~Halted =>
        /\ DOMAIN nodes \subseteq DOMAIN adjacencies
        /\ \A n \in DOMAIN adjacencies : \A p \in OutAssoc(n) : p[1] \in DOMAIN nodes
    /\ (bfs.ret # "none" /\ has_node(bfs.start)) =>
        /\ bfs.ret # "panic"
        /\ \A n \in Range(bfs.queue) :
            /\ has_node(n)
            /\ get_node(n).res = "Ok"
            /\ ~Graph_edges_of(n).panic
        /\ Range(bfs.out) \subseteq DOMAIN nodes

\* A node with an edge was removed from a directed SimpleMapGraph that had two
\* edges; a traversal over the two nodes that are left has run to its end.
C31_Witness ==
    /\ kind = "SimpleMap" /\ directed
    /\ last.op = "remove_node" /\ last.res = "Ok"
    /\ \A s \in 1..MaxEdgeSlots : edge_slots[s] = 1
    /\ edge_count = 1
    /\ bfs.ret = "None" /\ Len(bfs.out) = 2

====
